---- MODULE Spec2Model ----
(***************************************************************************)
(* PVDiagramMovieMaker.py as a state machine.                              *)
(*                                                                         *)
(* The script runs two phases one after the other.  Phase 1 (lines 14-69)  *)
(* opens a FITS cube, sums it along the velocity axis and saves one PNG    *)
(* per index of the last axis; the whole phase sits in one try/except that *)
(* prints the error.  Phase 2 (lines 73-112) lists the working directory,  *)
(* natural-sorts the names, keeps those ending in ".png" and writes them   *)
(* to an mp4 through cv2.VideoWriter.                                      *)
(*                                                                         *)
(* File names are sequences of one-character strings, so that formatting,  *)
(* the natural-sort key and the suffix test are computed as the code       *)
(* computes them.                                                          *)
(***************************************************************************)
EXTENDS Integers, Sequences, FiniteSets, TLC

(***************************************************************************)
(* Bounds of the model.                                                    *)
(***************************************************************************)
\* largest extent of the cut axis (x, the last axis of the cube)
MaxB == 2
\* largest number of entries of a directory handed straight to the collector
MaxFiles == 3
\* directories of at most this many entries are listed in every order
MaxPermuted == 4

\* extents of the velocity axis and of the other spatial axis
AxisV == {1, 2}
AxisA == {1, 2}

(***************************************************************************)
(* Characters and strings.                                                 *)
(***************************************************************************)
DigitChars == <<"0", "1", "2", "3", "4", "5", "6", "7", "8", "9">>

IsDigit(c) == c \in {"0", "1", "2", "3", "4", "5", "6", "7", "8", "9"}

\* code points of the characters that occur in the file names of the model
CharCode ==
    ("." :> 46) @@
    ("0" :> 48) @@ ("1" :> 49) @@ ("2" :> 50) @@ ("3" :> 51) @@ ("4" :> 52) @@
    ("5" :> 53) @@ ("6" :> 54) @@ ("7" :> 55) @@ ("8" :> 56) @@ ("9" :> 57) @@
    ("C" :> 67) @@ ("D" :> 68) @@ ("G" :> 71) @@ ("I" :> 73) @@ ("N" :> 78) @@
    ("P" :> 80) @@ ("V" :> 86) @@ ("_" :> 95) @@
    ("a" :> 97) @@ ("b" :> 98) @@ ("c" :> 99) @@ ("d" :> 100) @@ ("e" :> 101) @@
    ("g" :> 103) @@ ("h" :> 104) @@ ("i" :> 105) @@ ("l" :> 108) @@
    ("m" :> 109) @@ ("n" :> 110) @@ ("o" :> 111) @@ ("p" :> 112) @@
    ("r" :> 114) @@ ("t" :> 116) @@ ("v" :> 118) @@ ("w" :> 119)

\* int() of one decimal digit
DigitVal(c) == CharCode[c] - CharCode["0"]

\* Python's str < str: lexicographic by code point, a proper prefix is smaller
RECURSIVE StrLessFrom(_, _, _)
StrLessFrom(a, b, p) ==
    IF p > Len(b) THEN FALSE
    ELSE IF p > Len(a) THEN TRUE
    ELSE IF a[p] = b[p] THEN StrLessFrom(a, b, p + 1)
    ELSE CharCode[a[p]] < CharCode[b[p]]

StrLess(a, b) == StrLessFrom(a, b, 1)

\* str.endswith
EndsWith(s, suffix) ==
    /\ Len(s) >= Len(suffix)
    /\ SubSeq(s, Len(s) - Len(suffix) + 1, Len(s)) = suffix

StartsWith(s, prefix) ==
    /\ Len(s) >= Len(prefix)
    /\ SubSeq(s, 1, Len(prefix)) = prefix

(***************************************************************************)
(* The frame file name, line 61:                                           *)
(*   f'NGC7538_CII_pv_diagram_with_moment0_{i:03d}.png'                    *)
(***************************************************************************)
FramePrefix ==
    <<"N", "G", "C", "7", "5", "3", "8", "_", "C", "I", "I", "_", "p", "v", "_",
      "d", "i", "a", "g", "r", "a", "m", "_", "w", "i", "t", "h", "_",
      "m", "o", "m", "e", "n", "t", "0", "_">>

PngExt == <<".", "p", "n", "g">>

\* the minimum field width of the format spec 03d
PadWidth == 3

RECURSIVE DecDigits(_)
DecDigits(n) ==
    IF n < 10 THEN <<DigitChars[n + 1]>>
    ELSE DecDigits(n \div 10) \o <<DigitChars[(n % 10) + 1]>>

RECURSIVE ZeroPad(_, _)
ZeroPad(d, w) == IF Len(d) >= w THEN d ELSE ZeroPad(<<"0">> \o d, w)

\* format(i, '03d') for i >= 0
Format03d(i) == ZeroPad(DecDigits(i), PadWidth)

FrameName(i) == FramePrefix \o Format03d(i) \o PngExt

\* video_name, line 99
VideoName ==
    <<"N", "G", "C", "7", "5", "3", "8", "_", "V", "e", "r", "t", "i", "c", "a", "l",
      "P", "V", "D", "i", "a", "g", "r", "a", "m", ".", "m", "p", "4">>

\* the value of a run of decimal digits, int(text)
RECURSIVE DigitsValue(_)
DigitsValue(d) ==
    IF d = <<>> THEN 0
    ELSE 10 * DigitsValue(SubSeq(d, 1, Len(d) - 1)) + DigitVal(d[Len(d)])

\* the part of a name between the frame prefix and ".png"
IndexField(name) == SubSeq(name, Len(FramePrefix) + 1, Len(name) - Len(PngExt))

\* the composite-frame naming scheme: prefix, a run of digits, ".png"
IsFrameName(name) ==
    /\ StartsWith(name, FramePrefix)
    /\ EndsWith(name, PngExt)
    /\ Len(name) > Len(FramePrefix) + Len(PngExt)
    /\ \A p \in 1..Len(IndexField(name)) : IsDigit(IndexField(name)[p])

\* the index a frame name encodes
EmbeddedIndex(name) == DigitsValue(IndexField(name))

(***************************************************************************)
(* natsorted, line 84.  natsort's default key splits a string at every run *)
(* of decimal digits, turns the runs into integers and puts an empty       *)
(* string in front when the string starts with a digit, so that a key      *)
(* alternates text, number, text, ...; keys compare as Python tuples.      *)
(***************************************************************************)
RECURSIVE RunEnd(_, _, _)
\* the last position of the run of digits (or of non-digits) that starts at p
RunEnd(s, p, digits) ==
    IF p < Len(s) /\ IsDigit(s[p + 1]) = digits THEN RunEnd(s, p + 1, digits) ELSE p

TextPart(t) == [num |-> FALSE, n |-> 0, s |-> t]
NumPart(v) == [num |-> TRUE, n |-> v, s |-> <<>>]

RECURSIVE NatsortKeyFrom(_, _, _)
NatsortKeyFrom(s, p, acc) ==
    IF p > Len(s) THEN acc
    ELSE LET digits == IsDigit(s[p])
             e == RunEnd(s, p, digits)
             run == SubSeq(s, p, e)
         IN  IF digits
             THEN NatsortKeyFrom(s, e + 1,
                      (IF acc = <<>> THEN <<TextPart(<<>>)>> ELSE acc)
                          \o <<NumPart(DigitsValue(run))>>)
             ELSE NatsortKeyFrom(s, e + 1, acc \o <<TextPart(run)>>)

\* the key of a plain string sort: the whole name as one piece of text
PlainKey(s) == <<TextPart(s)>>

\* the key natsorted sorts by
NatsortKey(s) == NatsortKeyFrom(s, 1, <<>>)

\* one element of a key against the element at the same place of another key
PartLess(x, y) == IF x.num THEN x.n < y.n ELSE StrLess(x.s, y.s)

\* Python's tuple < tuple
RECURSIVE KeyLessFrom(_, _, _)
KeyLessFrom(k1, k2, p) ==
    IF p > Len(k2) THEN FALSE
    ELSE IF p > Len(k1) THEN TRUE
    ELSE IF k1[p] = k2[p] THEN KeyLessFrom(k1, k2, p + 1)
    ELSE PartLess(k1[p], k2[p])

KeyLess(k1, k2) == KeyLessFrom(k1, k2, 1)

\* sorted() is stable: x goes behind every element whose key is not greater
RECURSIVE InsertSorted(_, _)
InsertSorted(sorted, x) ==
    IF sorted = <<>> THEN <<x>>
    ELSE IF KeyLess(x.key, sorted[Len(sorted)].key)
         THEN InsertSorted(SubSeq(sorted, 1, Len(sorted) - 1), x)
                  \o <<sorted[Len(sorted)]>>
         ELSE sorted \o <<x>>

\* sorted(list, key=...): the key of each element is computed once
RECURSIVE SortedFrom(_, _, _)
SortedFrom(list, p, acc) ==
    IF p > Len(list) THEN acc
    ELSE SortedFrom(list, p + 1,
             InsertSorted(acc, [name |-> list[p], key |-> NatsortKey(list[p])]))

RECURSIVE Names(_)
Names(keyed) ==
    IF keyed = <<>> THEN <<>>
    ELSE Names(SubSeq(keyed, 1, Len(keyed) - 1)) \o <<keyed[Len(keyed)].name>>

natsorted(list) == Names(SortedFrom(list, 1, <<>>))

(***************************************************************************)
(* The cube, lines 16-32.  data has shape (v, y, x): velocity, declination,*)
(* right ascension; indices start at 0 as in numpy.                        *)
(***************************************************************************)
EmptyArr == [t \in {} |-> 0]

Voxels(V, A, B) == (0..(V - 1)) \X (0..(A - 1)) \X (0..(B - 1))

\* every voxel holds its own value
CodedCube(V, A, B) ==
    [kind |-> "cube", V |-> V, A |-> A, B |-> B,
     val |-> [t \in Voxels(V, A, B) |-> 1 + t[3] + B * (t[2] + A * t[1])]]

\* one distinctive voxel in an empty cube
MarkedCube(V, A, B, m) ==
    [kind |-> "cube", V |-> V, A |-> A, B |-> B,
     val |-> [t \in Voxels(V, A, B) |-> IF t = m THEN 1 ELSE 0]]

NoCube(kind) == [kind |-> kind, V |-> 0, A |-> 0, B |-> 0, val |-> EmptyArr]

\* what '../NGC7538_CII_merged_PCA.fits' may hold
CubeFiles ==
    {NoCube("missing"), NoCube("malformed")}
    \cup {CodedCube(V, A, B) : V \in AxisV, A \in AxisA, B \in 1..MaxB}
    \cup UNION {{MarkedCube(V, A, B, m) : m \in Voxels(V, A, B)} :
                    <<V, A, B>> \in AxisV \X AxisA \X (1..MaxB)}

RECURSIVE SumAxis0(_, _, _, _)
\* data[0, a, b] + ... + data[v, a, b]
SumAxis0(d, v, a, b) ==
    IF v < 0 THEN 0 ELSE SumAxis0(d, v - 1, a, b) + d.val[<<v, a, b>>]

\* np.sum(data, axis=0), line 32
Moment0(d) ==
    [t \in (0..(d.A - 1)) \X (0..(d.B - 1)) |-> SumAxis0(d, d.V - 1, t[1], t[2])]

\* a slice taken from the mirrored column
ExtractSliceMirrored(d, j) ==
    [t \in (0..(d.V - 1)) \X (0..(d.A - 1)) |-> d.val[<<t[1], t[2], d.B - 1 - j>>]]

\* data[:, :, i], line 37
ExtractSlice(d, j) ==
    [t \in (0..(d.V - 1)) \X (0..(d.A - 1)) |-> d.val[<<t[1], t[2], j>>]]

(***************************************************************************)
(* Files.  A PNG is what the figure showed when it was saved and its pixel *)
(* size; size "none" is a file cv2.imread cannot decode (it returns None). *)
(***************************************************************************)
FigureSize == "figure"
OtherSize == "other"
Unreadable == "none"

\* the figure of lines 40-58 for cut j
ComposeFigure(m0, slice, j) ==
    [size |-> FigureSize, panel1 |-> m0, marker |-> j, panel2 |-> slice, title |-> j]

OtherFile(size) ==
    [size |-> size, panel1 |-> EmptyArr, marker |-> -1, panel2 |-> EmptyArr,
     title |-> -1]

PlotName == <<"p", "l", "o", "t", ".", "p", "n", "g">>
BadName == <<"b", "a", "d", ".", "p", "n", "g">>

\* what the working directory may hold before the run: a frame of an earlier
\* run made with another figure size, another PNG, a PNG that does not decode,
\* the video of an earlier run
StartDirs ==
    LET stale == (FrameName(1) :> [ComposeFigure(EmptyArr, EmptyArr, 1)
                                       EXCEPT !.size = OtherSize])
        plot == (PlotName :> OtherFile(OtherSize))
        bad == (BadName :> OtherFile(Unreadable))
        old == (VideoName :> OtherFile(Unreadable))
        opt(on, f) == IF on THEN f ELSE EmptyArr
    IN  {opt(s, stale) @@ opt(p, plot) @@ opt(b, bad) @@ opt(o, old) :
             <<s, p, b, o>> \in BOOLEAN \X BOOLEAN \X BOOLEAN \X BOOLEAN}

(***************************************************************************)
(* os.listdir, line 81: the entries "in arbitrary order".  A directory of  *)
(* at most MaxPermuted entries is listed in every order, a larger one in   *)
(* every rotation of one order and of its reverse, so that any two entries *)
(* come in both orders.                                                    *)
(***************************************************************************)
RECURSIVE Perms(_)
Perms(S) ==
    IF S = {} THEN {<<>>}
    ELSE UNION {{<<e>> \o p : p \in Perms(S \ {e})} : e \in S}

RECURSIVE SetToSeq(_)
SetToSeq(S) ==
    IF S = {} THEN <<>>
    ELSE LET e == CHOOSE e \in S : TRUE IN <<e>> \o SetToSeq(S \ {e})

Reverse(s) == [p \in 1..Len(s) |-> s[Len(s) + 1 - p]]

Rotations(s) ==
    {[p \in 1..Len(s) |-> s[((p + r - 1) % Len(s)) + 1]] : r \in 0..(Len(s) - 1)}

Listings(S) ==
    IF Cardinality(S) <= MaxPermuted THEN Perms(S)
    ELSE Rotations(SetToSeq(S)) \cup Rotations(Reverse(SetToSeq(S)))

(***************************************************************************)
(* State.                                                                  *)
(***************************************************************************)
VARIABLES
    pc,           \* where the script is
    cube,         \* what the FITS file holds
    dir,          \* the working directory: name -> file
    dir0,         \* the working directory when the script started
    data,         \* the array read from the FITS file
    moment0_map,  \* line 32
    i,            \* the loop variable of line 35
    stdout,       \* what has been printed
    genError,     \* the exception raised inside the try block, or "none"
    failedAt,     \* the loop index at which it was raised, or -1
    written,      \* the savefig calls so far: index and file name
    file_list,    \* lines 81-84
    image_files,  \* line 87
    reads,        \* the cv2.imread calls so far
    size,         \* (width, height) of line 96
    video,        \* the VideoWriter and its file
    k,            \* the position of the loop of line 104 in image_files
    exc           \* the uncaught exception that ended the script, or "none"

vars ==
    <<pc, cube, dir, dir0, data, moment0_map, i, stdout, genError, failedAt,
      written, file_list, image_files, reads, size, video, k, exc>>

genVars == <<data, moment0_map, i, genError, failedAt, written>>
asmVars == <<file_list, image_files, reads, size, video, k, exc>>

Line(msg, arg) == [msg |-> msg, arg |-> arg]

NoVideo == [created |-> FALSE, released |-> FALSE, size |-> "unset", frames |-> <<>>]

Init ==
    /\ pc = "start"
    /\ cube \in CubeFiles
    /\ dir \in StartDirs
    /\ dir0 = dir
    /\ data = NoCube("none")
    /\ moment0_map = EmptyArr
    /\ i = 0
    /\ stdout = <<>>
    /\ genError = "none"
    /\ failedAt = -1
    /\ written = <<>>
    /\ file_list = <<>>
    /\ image_files = <<>>
    /\ reads = <<>>
    /\ size = "unset"
    /\ video = NoVideo
    /\ k = 0
    /\ exc = "none"

(***************************************************************************)
(* Phase 1: frame generation, lines 14-69.                                 *)
(***************************************************************************)
\* lines 16-32: the cube opens, its shape is printed, the moment 0 map is made
OpenCube ==
    /\ pc = "start"
    /\ cube.kind = "cube"
    /\ data' = cube
    /\ moment0_map' = Moment0(cube)
    /\ i' = 0
    /\ stdout' = stdout \o <<Line("Data shape", <<cube.V, cube.A, cube.B>>),
                             Line("Dimensions", <<>>),
                             Line("Coordinate types", <<>>)>>
    /\ pc' = "loop"
    /\ UNCHANGED <<cube, dir, dir0, genError, failedAt, written>>
    /\ UNCHANGED asmVars

\* lines 16-29 raise: no such file, or no 3-D array in it
OpenCubeFails ==
    /\ pc = "start"
    /\ cube.kind # "cube"
    /\ genError' = IF cube.kind = "missing" THEN "FileNotFoundError" ELSE "Exception"
    /\ pc' = "except"
    /\ UNCHANGED <<cube, dir, dir0, data, moment0_map, i, stdout, failedAt, written>>
    /\ UNCHANGED asmVars

\* the loop leaves one iteration too early
LoopDoneEarly(j, n) == j >= n - 1

\* range(x) is exhausted, line 35
LoopDone(j, n) == j >= n

\* lines 36-62: one frame is drawn and saved
SaveFrame ==
    /\ pc = "loop"
    /\ ~LoopDone(i, data.B)
    /\ LET pv_slice == ExtractSlice(data, i)
           name == FrameName(i)
       IN  /\ dir' = (name :> ComposeFigure(moment0_map, pv_slice, i)) @@ dir
           /\ written' = Append(written, [i |-> i, name |-> name])
    /\ i' = i + 1
    /\ UNCHANGED <<pc, cube, dir0, data, moment0_map, stdout, genError, failedAt>>
    /\ UNCHANGED asmVars

\* an error inside the loop body is swallowed and the loop goes on
LoopContinuesAfterError(j) == [pc |-> "loop", i |-> j + 1]

\* an exception inside the loop body leaves the loop for the handler
AfterLoopError(j) == [pc |-> "except", i |-> j]

\* lines 36-62 raise while the frame for i is made; nothing is saved for i
SaveFrameFails ==
    /\ pc = "loop"
    /\ ~LoopDone(i, data.B)
    /\ genError' = "Exception"
    /\ failedAt' = i
    /\ pc' = AfterLoopError(i).pc
    /\ i' = AfterLoopError(i).i
    /\ UNCHANGED <<cube, dir, dir0, data, moment0_map, stdout, written>>
    /\ UNCHANGED asmVars

\* line 64
Report ==
    /\ pc = "loop"
    /\ LoopDone(i, data.B)
    /\ stdout' = Append(stdout, Line("Created", <<data.B>>))
    /\ pc' = "collect"
    /\ UNCHANGED <<cube, dir, dir0>>
    /\ UNCHANGED genVars
    /\ UNCHANGED asmVars

\* lines 66-69: the handlers print and the script goes on below them
HandleError ==
    /\ pc = "except"
    /\ stdout' = Append(stdout,
                    IF genError = "FileNotFoundError"
                    THEN Line("Error: file not found", <<>>)
                    ELSE Line("An error occurred", <<>>))
    /\ pc' = "collect"
    /\ UNCHANGED <<cube, dir, dir0>>
    /\ UNCHANGED genVars
    /\ UNCHANGED asmVars

(***************************************************************************)
(* Phase 2: video assembly, lines 73-112.                                  *)
(***************************************************************************)
\* no filter at all
KeepAny(f) == TRUE

\* f.endswith('.png'), line 87
KeepFile(f) == EndsWith(f, PngExt)

\* the emptiness check never fires
NeverEmpty(files) == FALSE

\* not image_files, line 90
NoImages(files) == files = <<>>

\* lines 81-91
Collect ==
    /\ pc = "collect"
    /\ \E order \in Listings(DOMAIN dir) :
          LET sorted == natsorted(order)
              images == SelectSeq(sorted, KeepFile)
          IN  /\ file_list' = sorted
              /\ image_files' = images
              /\ IF NoImages(images)
                 THEN pc' = "raised" /\ exc' = "ValueError"
                 ELSE pc' = "read_first" /\ exc' = exc
    /\ UNCHANGED <<cube, dir, dir0, stdout, reads, size, video, k>>
    /\ UNCHANGED genVars

\* lines 94-96: image_files[0] is read; None has no shape
ReadFirst ==
    /\ pc = "read_first"
    /\ IF image_files = <<>>
       THEN pc' = "raised" /\ exc' = "IndexError" /\ UNCHANGED <<reads, size>>
       ELSE /\ reads' = Append(reads, image_files[1])
            /\ IF dir[image_files[1]].size = Unreadable
               THEN pc' = "raised" /\ exc' = "AttributeError" /\ size' = size
               ELSE pc' = "open" /\ exc' = exc /\ size' = dir[image_files[1]].size
    /\ UNCHANGED <<cube, dir, dir0, stdout, file_list, image_files, video, k>>
    /\ UNCHANGED genVars

\* lines 99-101: the writer is created and with it the output file
OpenWriter ==
    /\ pc = "open"
    /\ video' = [created |-> TRUE, released |-> FALSE, size |-> size, frames |-> <<>>]
    /\ dir' = (VideoName :> OtherFile(Unreadable)) @@ dir
    /\ k' = 1
    /\ pc' = "write"
    /\ UNCHANGED <<cube, dir0, stdout, file_list, image_files, reads, size, exc>>
    /\ UNCHANGED genVars

\* cv2.VideoWriter.write takes a frame of the size the writer was opened with
Accepted(frame) == frame.size # Unreadable /\ frame.size = video.size

\* lines 104-107: one image is read and handed to the writer.  A frame the
\* writer does not take (None, or another size) is dropped without a word or
\* makes write raise, depending on the OpenCV build.
WriteFrame ==
    /\ pc = "write"
    /\ k <= Len(image_files)
    /\ reads' = Append(reads, image_files[k])
    /\ LET frame == dir[image_files[k]]
       IN  \/ /\ Accepted(frame)
              /\ video' = [video EXCEPT !.frames = Append(@, frame)]
              /\ k' = k + 1
              /\ UNCHANGED <<pc, exc>>
           \/ /\ ~Accepted(frame)
              /\ k' = k + 1
              /\ UNCHANGED <<pc, exc, video>>
           \/ /\ ~Accepted(frame)
              /\ pc' = "raised"
              /\ exc' = "cv2.error"
              /\ UNCHANGED <<k, video>>
    /\ UNCHANGED <<cube, dir, dir0, stdout, file_list, image_files, size>>
    /\ UNCHANGED genVars

\* lines 110-112
Release ==
    /\ pc = "write"
    /\ k > Len(image_files)
    /\ video' = [video EXCEPT !.released = TRUE]
    /\ stdout' = Append(stdout, Line("Video created successfully.", <<>>))
    /\ pc' = "done"
    /\ UNCHANGED <<cube, dir, dir0, file_list, image_files, reads, size, k, exc>>
    /\ UNCHANGED genVars

Next ==
    \/ OpenCube
    \/ OpenCubeFails
    \/ SaveFrame
    \/ SaveFrameFails
    \/ Report
    \/ HandleError
    \/ Collect
    \/ ReadFirst
    \/ OpenWriter
    \/ WriteFrame
    \/ Release

Spec == Init /\ [][Next]_vars

(***************************************************************************)
(* The collector alone, lines 81-91, on directories drawn from sample      *)
(* names: the script reaches line 81 with whatever the directory held when *)
(* the FITS file is not there.  The samples hold frames named by line 61   *)
(* on both sides of every change of digit count, frame names of another    *)
(* width, a PNG that is no frame and a file that is no PNG.                *)
(***************************************************************************)
IndexSamples == {0, 9, 10, 99, 100, 999, 1000, 1001}

OtherWidthNames ==
    {FramePrefix \o d \o PngExt : d \in {<<"9">>, <<"1", "0">>, <<"0", "1", "0", "0">>}}

SampleNames ==
    {FrameName(j) : j \in IndexSamples} \cup OtherWidthNames \cup {PlotName, VideoName}

CollectDirs ==
    {[n \in S |-> OtherFile(FigureSize)] :
         S \in {T \in SUBSET SampleNames : Cardinality(T) <= MaxFiles}}

InitCollect ==
    /\ pc = "collect"
    /\ cube = NoCube("missing")
    /\ dir \in CollectDirs
    /\ dir0 = dir
    /\ data = NoCube("none")
    /\ moment0_map = EmptyArr
    /\ i = 0
    /\ stdout = <<Line("Error: file not found", <<>>)>>
    /\ genError = "FileNotFoundError"
    /\ failedAt = -1
    /\ written = <<>>
    /\ file_list = <<>>
    /\ image_files = <<>>
    /\ reads = <<>>
    /\ size = "unset"
    /\ video = NoVideo
    /\ k = 0
    /\ exc = "none"

SpecCollect == InitCollect /\ [][Collect]_vars

(***************************************************************************)
(* Properties.                                                             *)
(***************************************************************************)
Range(s) == {s[p] : p \in 1..Len(s)}

\* the collector has run
Collected == pc \in {"read_first", "open", "write", "done", "raised"}

\* the script has ended
Ended == pc \in {"done", "raised"}

PngEntries == {n \in DOMAIN dir : EndsWith(n, PngExt)}

RECURSIVE SpectralSum(_, _, _)
\* cube[v, a, b] + ... + cube[V-1, a, b]
SpectralSum(v, a, b) ==
    IF v >= cube.V THEN 0 ELSE cube.val[<<v, a, b>>] + SpectralSum(v + 1, a, b)

\* C1: when loading the cube or a step of the frame loop fails, the assembly
\* phase is never started and no video file is produced.
C1_FailureNeverReachesAssembly ==
    genError # "none" => (~Collected /\ ~video.created)

\* C2: the frame saved for index i shows the slice Slice[v,a] = cube[v,a,i],
\* carries its marker at coordinate i, has a file name that encodes i, and shows
\* the sum of the cube over the spectral axis, the same for every i.
C2_FrameAlignment ==
    \A p \in 1..Len(written) :
        LET w == written[p]
            f == dir[w.name]
        IN  /\ w.i \in 0..(cube.B - 1)
            /\ IsFrameName(w.name)
            /\ EmbeddedIndex(w.name) = w.i
            /\ f.marker = w.i
            /\ f.title = w.i
            /\ DOMAIN f.panel2 = (0..(cube.V - 1)) \X (0..(cube.A - 1))
            /\ \A t \in DOMAIN f.panel2 : f.panel2[t] = cube.val[<<t[1], t[2], w.i>>]
            /\ DOMAIN f.panel1 = (0..(cube.A - 1)) \X (0..(cube.B - 1))
            /\ \A t \in DOMAIN f.panel1 : f.panel1[t] = SpectralSum(0, t[1], t[2])
            /\ f.panel1 = dir[written[1].name].panel1

\* the second frame of a two-channel cube whose one marked voxel lies in column
\* 1 has been saved and shows the mark
C2_Witness ==
    /\ Len(written) >= 2
    /\ cube.V = 2
    /\ cube.A = 2
    /\ \E v \in 0..1, a \in 0..1 :
          /\ cube.val[<<v, a, 1>>] = 1
          /\ cube.val[<<v, a, 0>>] = 0
          /\ dir[written[2].name].panel2[<<v, a>>] = 1
          /\ dir[written[1].name].panel2[<<v, a>>] = 0

\* the directory held no frame file when the script started
CleanStart == \A n \in DOMAIN dir0 : ~IsFrameName(n)

FrameEntries == {n \in DOMAIN dir : IsFrameName(n)}

\* C3: frames are saved in the order 0, 1, 2, ...; a run without error on a
\* cube with B = N that started in a clean directory ends with exactly N frame
\* files, for the indices 0..N-1, and prints N as the number created.
C3_ExactlyNFrames ==
    /\ \A p \in 1..Len(written) : written[p].i = p - 1
    /\ (genError = "none" /\ pc \notin {"start", "loop"} /\ CleanStart) =>
          /\ Len(written) = cube.B
          /\ FrameEntries = {FrameName(j) : j \in 0..(cube.B - 1)}
          /\ Cardinality(FrameEntries) = cube.B
          /\ {EmbeddedIndex(n) : n \in FrameEntries} = 0..(cube.B - 1)
          /\ \E p \in 1..Len(stdout) : stdout[p] = Line("Created", <<cube.B>>)
          /\ \A p \in 1..Len(stdout) :
                 stdout[p].msg = "Created" => stdout[p].arg = <<cube.B>>

\* a run on the widest cube, started in a directory that holds another PNG but
\* no frame, has reported its frames
C3_Witness ==
    /\ pc = "collect"
    /\ genError = "none"
    /\ CleanStart
    /\ PlotName \in DOMAIN dir0
    /\ cube.B = MaxB
    /\ Len(written) = MaxB

\* C4: the frame names among the collected files come in the order of the
\* numbers they encode, so that frames named by the generator come in the order
\* of their generation whatever their digit count, and none is lost.
C4_NumericOrder ==
    Collected =>
        /\ \A p, q \in 1..Len(image_files) :
              (p < q /\ IsFrameName(image_files[p]) /\ IsFrameName(image_files[q]))
                  => EmbeddedIndex(image_files[p]) <= EmbeddedIndex(image_files[q])
        /\ \A a, b \in IndexSamples :
              (a < b /\ FrameName(a) \in DOMAIN dir /\ FrameName(b) \in DOMAIN dir)
                  => \E p, q \in 1..Len(image_files) :
                         /\ p < q
                         /\ image_files[p] = FrameName(a)
                         /\ image_files[q] = FrameName(b)

\* frame 999 directly before frame 1000, and a frame named with one digit (9)
\* in front of both
C4_Witness ==
    /\ Collected
    /\ Len(image_files) = 3
    /\ image_files[1] = FramePrefix \o <<"9">> \o PngExt
    /\ image_files[2] = FrameName(999)
    /\ image_files[3] = FrameName(1000)

\* C5 as stated: every collected file matches the composite-frame naming scheme.
C5_OnlyFrameFiles ==
    Collected => \A p \in 1..Len(image_files) : IsFrameName(image_files[p])

\* C5, amended: the collector keeps exactly the directory entries whose name
\* ends in ".png", each once: every frame the generation phase saved is among
\* them, and no file without that suffix is.
C5_OnlyPngFiles ==
    Collected =>
        /\ Range(image_files) = PngEntries
        /\ Len(image_files) = Cardinality(PngEntries)
        /\ \A p \in 1..Len(written) : written[p].name \in Range(image_files)
        /\ \A p \in 1..Len(video.frames) :
               \E n \in PngEntries : dir[n] = video.frames[p]

\* a saved frame and the unrelated PNG are both collected, the old video is not
C5_Witness ==
    /\ Collected
    /\ Len(written) >= 1
    /\ written[1].name \in Range(image_files)
    /\ PlotName \in Range(image_files)
    /\ VideoName \in DOMAIN dir0
    /\ VideoName \notin Range(image_files)

\* a frame behind the first has another size than the first
LaterFrameDiffers ==
    /\ size # "unset"
    /\ \E p \in 2..Len(image_files) :
          dir[image_files[p]].size \notin {size, Unreadable}

\* C6: when a later frame has other dimensions than the first, assembly fails
\* with a dimension-mismatch error and no output video file remains.
C6_MismatchIsFatal ==
    (Ended /\ LaterFrameDiffers) =>
        (pc = "raised" /\ exc = "DimensionMismatchError" /\ ~video.created)

C8_EveryFrameOnce ==
    pc = "done" =>
        /\ Len(video.frames) = Len(image_files)
        /\ \A p \in 1..Len(video.frames) : video.frames[p] = dir[image_files[p]]

\* C9: no run ends with the container opened and never released.
C9_ContainerReleased ==
    (Ended /\ video.created) => video.released

\* C10: after the first failure, at index k, no frame above k is attempted or
\* saved, the frames below k stay as they were saved, and the run does not
\* report that its frames were created.
C10_FailFast ==
    failedAt # -1 =>
        /\ \A p \in 1..Len(written) : written[p].i < failedAt
        /\ i = failedAt
        /\ \A j \in (failedAt + 1)..(cube.B - 1) :
              /\ FrameName(j) \in DOMAIN dir <=> FrameName(j) \in DOMAIN dir0
              /\ FrameName(j) \in DOMAIN dir => dir[FrameName(j)] = dir0[FrameName(j)]
        /\ \A j \in 0..(failedAt - 1) :
              /\ FrameName(j) \in DOMAIN dir
              /\ dir[FrameName(j)].size = FigureSize
              /\ dir[FrameName(j)].marker = j
              /\ \A t \in DOMAIN dir[FrameName(j)].panel2 :
                     dir[FrameName(j)].panel2[t] = cube.val[<<t[1], t[2], j>>]
        /\ \A p \in 1..Len(stdout) : stdout[p].msg # "Created"

\* the loop failed at index 1 of a cube with more cuts; the script has ended
\* with frame 0 on disk
C10_Witness ==
    /\ failedAt = 1
    /\ cube.B > failedAt
    /\ Ended
    /\ FrameName(0) \in DOMAIN dir
    /\ dir[FrameName(0)].marker = 0

====
